---- MODULE Spec2Model ----
(***************************************************************************)
(* Order and risk management engine of the paper-trading simulator         *)
(* (src/main.py): the position ledger, the stop-loss evaluator, the limit  *)
(* order book and the command loop that drives them.                       *)
(*                                                                         *)
(* Amounts.  Quote prices, target prices and balances are whole currency   *)
(* units.  A stop order's 'price' is kept in hundredths of a unit, so that *)
(*     highest_price * (1 - trailing_percent / 100)                        *)
(* is the exact integer highest_price * (100 - trailing_percent).          *)
(* A holding's avg_cost is an exact fraction <<num, den>> in lowest terms. *)
(* Arithmetic is exact: binary floating point rounding is not modelled.    *)
(*                                                                         *)
(* Spec is the whole command loop on one symbol; LedgerSpec drives the     *)
(* position ledger alone and records the trades it applies; BookSpec is    *)
(* the limit order book with two symbols and one trader; TrailSpec is one  *)
(* trader with trailing stops of 5%; CancelSpec is two traders cancelling  *)
(* the orders they have on file, on two symbols.                           *)
(***************************************************************************)
EXTENDS Integers, Sequences, FiniteSets, TLC

\* ------------------------------------------------------------------ bounds
\* Commands executed over all sessions.
MaxCmds == 3
\* Largest clock second a limit order id can carry.
MaxTime == 1
\* Trades LedgerSpec applies to the account.
MaxTrades == 4

\* Limit orders on file when a cancelling session starts.
MaxOnFile == 3

\* ------------------------------------------------------- program constants
\* Starting capital of a new or reset account, in whole units (main.py:1241).
StartingCapital == 10000

\* ------------------------------------------------------------ input domains
Names == {"admin", "bob"}
\* is_admin: the names with admin privileges among Names.
admin_users == {"admin"}
\* Symbols a trader can name; SYMBOLS are the ones fetch_prices tracks.
Symbols == {"INFY"}
SYMBOLS == {"INFY", "TCS"}
\* The symbols, the quote prices and the balances on file of BookSpec.
BookSymbols == {"INFY", "TCS"}
BookPrices == {100}
BookBalances == {1500}
\* Prices the quote source can report, in whole units.
Prices == {100, 113, 120}
\* Share counts a trader can type (0 is the invalid one).
ShareInputs == {0, 5, 10}
\* Target prices of limit orders and stop prices of fixed stop orders a trader
\* can type: one value with quotes below, at and above it.
PriceInputs == {113}
\* Percentages a trader can type for trailstop (0 and 100 are invalid).
TrailInputs == {0, 10, 100}
\* Percentages a trader can type for sellpct (0 is invalid).
SellPctInputs == {0, 50, 100}
\* Amounts an admin can type for setbalance, in whole units.
BalanceInputs == {-100, 500}

\* Inputs of the trailing-stop sessions: the share count and the percentage
\* typed at the prompt.
\* The share count of the holdings and orders on file when a cancelling
\* session starts.
OnFileShares == {5}

TrailShares == {10}
TrailPercents == {5}

\* ------------------------------------------------------------------ helpers
Put(f, k, v) == [x \in (DOMAIN f) \cup {k} |-> IF x = k THEN v ELSE f[x]]
Del(f, k) == [x \in (DOMAIN f) \ {k} |-> f[x]]
Empty == [x \in {} |-> 0]

RECURSIVE GCD(_, _)
GCD(a, b) == IF b = 0 THEN a ELSE GCD(b, a % b)

\* The fraction n/d in lowest terms.
Frac(n, d) == LET g == GCD(n, d) IN <<n \div g, d \div g>>

\* A new account: {'balance': 10000.0, 'portfolio': {}, 'stop_losses': {}}.
NewAccount == [balance |-> StartingCapital, portfolio |-> Empty, stop_losses |-> Empty]

VARIABLES
    users,                  \* users: username -> account (in memory)
    user,                   \* the session's account object
    username,               \* the session's username
    aliased,                \* TRUE iff user is the object users[username]
    pending_orders,         \* sequence of limit orders, in dict insertion order
    stocks,                 \* pre-fetched quotes: symbol -> price
    market,                 \* the quote source: symbol -> price (absent = unavailable)
    executed_stop_losses,   \* records returned by the last check_stop_losses
    executed_limit_orders,  \* records returned by the last process_limit_orders
    disk_users,             \* users.json
    disk_orders,            \* pending_orders.json
    now,                    \* int(time.time()) of the latest order placement
    cmds,                   \* commands executed so far
    pc,                     \* "login" | "stops" | "limits" | "cmd"
    trades                  \* history: the trades LedgerSpec has applied to the
                            \* holdings still open (empty under the other
                            \* specifications)

vars == <<users, user, username, aliased, pending_orders, stocks, market,
          executed_stop_losses, executed_limit_orders, disk_users, disk_orders,
          now, cmds, pc, trades>>

\* ------------------------------------------------------------- quote source
\* fetch_single_price(sym): the live quote, or unavailable.
fetch_single_price_ok(sym) == sym \in DOMAIN market
fetch_single_price(sym) == market[sym]

\* fetch_prices(): the live quotes of the tracked symbols that answer.
fetch_prices == [s \in (SYMBOLS \cap DOMAIN market) |-> market[s]]

\* next((s for s in stocks if s['symbol'] == sym), None), else fetch_single_price.
HasQuote(sym) == sym \in DOMAIN stocks \/ fetch_single_price_ok(sym)
Quote(sym) == IF sym \in DOMAIN stocks THEN stocks[sym] ELSE fetch_single_price(sym)

\* ------------------------------------------------------------ position ledger
\* The loop of calculate_net_worth over the holdings on syms: a holding with no
\* quote, pre-fetched or live, adds nothing.
RECURSIVE HoldingsValue(_, _)
HoldingsValue(acc, syms) ==
    IF syms = {} THEN 0
    ELSE LET sym == CHOOSE s \in syms : TRUE
         IN (IF HasQuote(sym) THEN acc.portfolio[sym].shares * Quote(sym) ELSE 0)
            + HoldingsValue(acc, syms \ {sym})

\* calculate_net_worth(user, stocks)
calculate_net_worth(acc) == acc.balance + HoldingsValue(acc, DOMAIN acc.portfolio)

\* BuyInto taking the plain mean of the old average and the new price.
BuyInto_UnweightedMean(acc, sym, shares, current_price) ==
    LET holding ==
            IF sym \notin DOMAIN acc.portfolio
            THEN [shares |-> shares, avg_cost |-> <<current_price, 1>>]
            ELSE LET old_avg == acc.portfolio[sym].avg_cost
                 IN [shares |-> acc.portfolio[sym].shares + shares,
                     avg_cost |-> Frac(old_avg[1] + current_price * old_avg[2], 2 * old_avg[2])]
    IN [acc EXCEPT !.balance = @ - current_price * shares,
                   !.portfolio = Put(@, sym, holding)]

\* Market buy and limit-buy fill (main.py:1384-1394 and 453-462, same code):
\* debit the cost and fold the purchase into the weighted average cost.
BuyInto(acc, sym, shares, current_price) ==
    LET cost == current_price * shares
        holding ==
            IF sym \notin DOMAIN acc.portfolio
            THEN [shares |-> shares, avg_cost |-> <<current_price, 1>>]
            ELSE LET old_data == acc.portfolio[sym]
                     old_shares == old_data.shares
                     old_avg == old_data.avg_cost
                     new_shares == old_shares + shares
                 IN [shares |-> new_shares,
                     avg_cost |-> Frac(old_avg[1] * old_shares + current_price * shares * old_avg[2],
                                       old_avg[2] * new_shares)]
    IN [acc EXCEPT !.balance = @ - cost, !.portfolio = Put(@, sym, holding)]

\* SellFrom with the deletion at zero left out.
SellFrom_KeepsEmptyHolding(acc, sym, shares, current_price) ==
    [acc EXCEPT !.balance = @ + current_price * shares,
                !.portfolio = [@ EXCEPT ![sym].shares = @ - shares]]

\* Market sell, sellpct and limit-sell fill (main.py:1451-1454, 763-767 and
\* 477-481, same code): credit the revenue, decrement the holding and delete
\* it at zero.  The account's stop_losses are not touched.
SellFrom(acc, sym, shares, current_price) ==
    LET revenue == current_price * shares
        left == acc.portfolio[sym].shares - shares
    IN [acc EXCEPT !.balance = @ + revenue,
                   !.portfolio = IF left = 0 THEN Del(@, sym)
                                 ELSE [@ EXCEPT ![sym].shares = left]]

\* ---------------------------------------------------------- stop-loss evaluator
\* TrailingStopPrice with the sign of the percentage flipped.
TrailingStopPrice_Above(highest_price, trailing_percent) ==
    highest_price * (100 + trailing_percent)

\* new_stop_price = highest_price * (1 - trailing_percent / 100), in hundredths.
TrailingStopPrice(highest_price, trailing_percent) ==
    highest_price * (100 - trailing_percent)

\* NewHigh taking any change of price for a new high.
NewHigh_AnyChange(current_price, highest_price) == current_price # highest_price

\* if current_price > highest_price: a new high moves the stop up.
NewHigh(current_price, highest_price) == current_price > highest_price

\* TrailingUpdate recording the new high and leaving the stop price behind.
TrailingUpdate_HighOnly(stop_data, current_price) ==
    IF stop_data.trailing /\ NewHigh(current_price, stop_data.highest_price)
    THEN [stop_data EXCEPT !.highest_price = current_price]
    ELSE stop_data

\* The trailing-stop block of check_stop_losses: the order as the pass leaves it.
TrailingUpdate(stop_data, current_price) ==
    IF stop_data.trailing /\ NewHigh(current_price, stop_data.highest_price)
    THEN [stop_data EXCEPT !.highest_price = current_price,
                           !.price = TrailingStopPrice(current_price, stop_data.trailing_percent)]
    ELSE stop_data

\* StopTriggers with a strict comparison.
StopTriggers_Strict(current_price, stop_price) == current_price * 100 < stop_price

\* if current_price <= stop_price (stop_price in hundredths).
StopTriggers(current_price, stop_price) == current_price * 100 <= stop_price

\* revenue = current_price * shares, with shares the order's share count.
StopRevenue(current_price, shares) == current_price * shares

\* StopSale crediting the stop price instead of the quote price.
StopSale_AtStopPrice(acc, sym, stop_data, current_price) ==
    LET shares == stop_data.shares
        held == acc.portfolio[sym].shares
    IN [acc EXCEPT !.balance = @ + (stop_data.price * shares) \div 100,
                   !.portfolio = IF shares >= held THEN Del(@, sym)
                                 ELSE [@ EXCEPT ![sym].shares = held - shares],
                   !.stop_losses = Del(@, sym)]

\* The forced sale of a triggered stop order.
StopSale(acc, sym, stop_data, current_price) ==
    LET shares == stop_data.shares
        held == acc.portfolio[sym].shares
    IN [acc EXCEPT !.balance = @ + StopRevenue(current_price, shares),
                   !.portfolio = IF shares >= held THEN Del(@, sym)
                                 ELSE [@ EXCEPT ![sym].shares = held - shares],
                   !.stop_losses = Del(@, sym)]

\* The execution record of a triggered stop order.
StopRecord(sym, stop_data, current_price) ==
    [symbol |-> sym, shares |-> stop_data.shares, price |-> current_price,
     revenue |-> StopRevenue(current_price, stop_data.shares),
     stop_price |-> stop_data.price, trailing |-> stop_data.trailing]

\* StopStep dropping an order whose symbol has no quote instead of skipping it.
StopStep_DropsUnquoted(acc, sym) ==
    IF sym \notin DOMAIN acc.portfolio \/ ~HasQuote(sym)
    THEN [user |-> [acc EXCEPT !.stop_losses = Del(@, sym)], executed |-> <<>>]
    ELSE LET current_price == Quote(sym)
             stop_data == TrailingUpdate(acc.stop_losses[sym], current_price)
             ratcheted == [acc EXCEPT !.stop_losses[sym] = stop_data]
         IN IF StopTriggers(current_price, stop_data.price)
            THEN [user |-> StopSale(ratcheted, sym, stop_data, current_price),
                  executed |-> <<StopRecord(sym, stop_data, current_price)>>]
            ELSE [user |-> ratcheted, executed |-> <<>>]

\* StopStep looking the quote up before the holding: an order with no quote
\* is skipped even when its holding is gone.
StopStep_QuoteFirst(acc, sym) ==
    IF ~HasQuote(sym)
    THEN [user |-> acc, executed |-> <<>>]
    ELSE IF sym \notin DOMAIN acc.portfolio
    THEN [user |-> [acc EXCEPT !.stop_losses = Del(@, sym)], executed |-> <<>>]
    ELSE LET current_price == Quote(sym)
             stop_data == TrailingUpdate(acc.stop_losses[sym], current_price)
             ratcheted == [acc EXCEPT !.stop_losses[sym] = stop_data]
         IN IF StopTriggers(current_price, stop_data.price)
            THEN [user |-> StopSale(ratcheted, sym, stop_data, current_price),
                  executed |-> <<StopRecord(sym, stop_data, current_price)>>]
            ELSE [user |-> ratcheted, executed |-> <<>>]

\* One iteration of the loop of check_stop_losses, for the order on sym.
StopStep(acc, sym) ==
    IF sym \notin DOMAIN acc.portfolio
    THEN [user |-> [acc EXCEPT !.stop_losses = Del(@, sym)], executed |-> <<>>]
    ELSE IF ~HasQuote(sym)
    THEN [user |-> acc, executed |-> <<>>]
    ELSE LET current_price == Quote(sym)
             stop_data == TrailingUpdate(acc.stop_losses[sym], current_price)
             ratcheted == [acc EXCEPT !.stop_losses[sym] = stop_data]
         IN IF StopTriggers(current_price, stop_data.price)
            THEN [user |-> StopSale(ratcheted, sym, stop_data, current_price),
                  executed |-> <<StopRecord(sym, stop_data, current_price)>>]
            ELSE [user |-> ratcheted, executed |-> <<>>]

\* check_stop_losses(user, stocks) over the orders on syms.  Each iteration
\* reads and writes its own symbol's holding and order and adds to the
\* balance, so the iterations commute and the visiting order is immaterial.
RECURSIVE StopLoop(_, _)
StopLoop(acc, syms) ==
    IF syms = {} THEN [user |-> acc, executed |-> <<>>]
    ELSE LET sym == CHOOSE s \in syms : TRUE
             one == StopStep(acc, sym)
             rest == StopLoop(one.user, syms \ {sym})
         IN [user |-> rest.user, executed |-> one.executed \o rest.executed]

check_stop_losses(acc) == StopLoop(acc, DOMAIN acc.stop_losses)

\* ------------------------------------------------------------- limit order book
\* ShouldExecute with strict comparisons.
ShouldExecute_Strict(order_type, current_price, target_price) ==
    \/ order_type = "buy" /\ current_price < target_price
    \/ order_type = "sell" /\ current_price > target_price

\* should_execute of process_limit_orders.
ShouldExecute(order_type, current_price, target_price) ==
    \/ order_type = "buy" /\ current_price <= target_price
    \/ order_type = "sell" /\ current_price >= target_price

\* DelOrder leaving the order in the book.
DelOrder_KeepsOrder(pend, order_id) == pend

\* del pending_orders[order_id]
DelOrder(pend, order_id) == SelectSeq(pend, LAMBDA o : o.id # order_id)

\* The execution record of a filled limit order.
LimitRecord(order, current_price) ==
    [type |-> order.type, symbol |-> order.symbol, shares |-> order.shares,
     target_price |-> order.price, execution_price |-> current_price,
     amount |-> current_price * order.shares, user |-> order.user]

\* Whether the account can take the fill: the balance covers the cost of a
\* buy, the holding covers the shares of a sell.
CanFill(acc, order, current_price) ==
    IF order.type = "buy"
    THEN acc.balance >= current_price * order.shares
    ELSE /\ order.symbol \in DOMAIN acc.portfolio
         /\ acc.portfolio[order.symbol].shares >= order.shares

\* LimitStep filling at the order's target price instead of the quote price.
LimitStep_AtTargetPrice(st, order) ==
    IF order.user \notin DOMAIN st.users
    THEN [st EXCEPT !.pending = DelOrder(@, order.id)]
    ELSE IF ~HasQuote(order.symbol)
    THEN st
    ELSE LET acc == st.users[order.user]
             current_price == Quote(order.symbol)
         IN IF ~ShouldExecute(order.type, current_price, order.price)
            THEN st
            ELSE LET filled == CanFill(acc, order, order.price)
                     after == IF ~filled THEN acc
                              ELSE IF order.type = "buy"
                              THEN BuyInto(acc, order.symbol, order.shares, order.price)
                              ELSE SellFrom(acc, order.symbol, order.shares, order.price)
                 IN [pending |-> DelOrder(st.pending, order.id),
                     users |-> [st.users EXCEPT ![order.user] = after],
                     executed |-> IF filled
                                  THEN Append(st.executed, LimitRecord(order, order.price))
                                  ELSE st.executed]

\* LimitStep applying the fill to the account of the session instead of the
\* account of the order's owner.
LimitStep_ToSessionUser(st, order) ==
    IF order.user \notin DOMAIN st.users
    THEN [st EXCEPT !.pending = DelOrder(@, order.id)]
    ELSE IF ~HasQuote(order.symbol)
    THEN st
    ELSE LET acc == st.users[order.user]
             current_price == Quote(order.symbol)
         IN IF ~ShouldExecute(order.type, current_price, order.price)
            THEN st
            ELSE LET filled == CanFill(acc, order, current_price)
                     after == IF ~filled THEN acc
                              ELSE IF order.type = "buy"
                              THEN BuyInto(acc, order.symbol, order.shares, current_price)
                              ELSE SellFrom(acc, order.symbol, order.shares, current_price)
                 IN [pending |-> DelOrder(st.pending, order.id),
                     users |-> [st.users EXCEPT ![username] = after],
                     executed |-> IF filled
                                  THEN Append(st.executed, LimitRecord(order, current_price))
                                  ELSE st.executed]

\* LimitStep keeping the order of an owner who no longer exists.
LimitStep_KeepsOwnerless(st, order) ==
    IF order.user \notin DOMAIN st.users
    THEN st
    ELSE IF ~HasQuote(order.symbol)
    THEN st
    ELSE LET acc == st.users[order.user]
             current_price == Quote(order.symbol)
         IN IF ~ShouldExecute(order.type, current_price, order.price)
            THEN st
            ELSE LET filled == CanFill(acc, order, current_price)
                     after == IF ~filled THEN acc
                              ELSE IF order.type = "buy"
                              THEN BuyInto(acc, order.symbol, order.shares, current_price)
                              ELSE SellFrom(acc, order.symbol, order.shares, current_price)
                 IN [pending |-> DelOrder(st.pending, order.id),
                     users |-> [st.users EXCEPT ![order.user] = after],
                     executed |-> IF filled
                                  THEN Append(st.executed, LimitRecord(order, current_price))
                                  ELSE st.executed]

\* One iteration of the loop of process_limit_orders.
\* st = [pending, users, executed].  An order that met its price condition is
\* deleted whether or not the fill went through (main.py:493-494).
LimitStep(st, order) ==
    IF order.user \notin DOMAIN st.users
    THEN [st EXCEPT !.pending = DelOrder(@, order.id)]
    ELSE IF ~HasQuote(order.symbol)
    THEN st
    ELSE LET acc == st.users[order.user]
             current_price == Quote(order.symbol)
         IN IF ~ShouldExecute(order.type, current_price, order.price)
            THEN st
            ELSE LET filled == CanFill(acc, order, current_price)
                     after == IF ~filled THEN acc
                              ELSE IF order.type = "buy"
                              THEN BuyInto(acc, order.symbol, order.shares, current_price)
                              ELSE SellFrom(acc, order.symbol, order.shares, current_price)
                 IN [pending |-> DelOrder(st.pending, order.id),
                     users |-> [st.users EXCEPT ![order.user] = after],
                     executed |-> IF filled
                                  THEN Append(st.executed, LimitRecord(order, current_price))
                                  ELSE st.executed]

\* The loop over list(pending_orders.items()): the orders as they were when
\* the pass began, in insertion order.
RECURSIVE LimitLoop(_, _, _)
LimitLoop(st, orders, i) ==
    IF i > Len(orders) THEN st
    ELSE LimitLoop(LimitStep(st, orders[i]), orders, i + 1)

process_limit_orders(pend, usrs) ==
    LimitLoop([pending |-> pend, users |-> usrs, executed |-> <<>>], pend, 1)

\* ------------------------------------------------------------- trader actions
\* set_stop_loss without the check of the shares against the holding.
set_stop_loss_NoSharesCheck(acc, sym, shares, stop_price, trailing, trailing_percent) ==
    IF sym \notin DOMAIN acc.portfolio
    THEN [ok |-> FALSE, user |-> acc]
    ELSE IF trailing /\ trailing_percent # 0
    THEN IF fetch_single_price_ok(sym)
         THEN LET current_price == fetch_single_price(sym)
              IN [ok |-> TRUE,
                  user |-> [acc EXCEPT !.stop_losses = Put(@, sym,
                      [shares |-> shares,
                       price |-> TrailingStopPrice(current_price, trailing_percent),
                       trailing |-> TRUE, trailing_percent |-> trailing_percent,
                       highest_price |-> current_price])]]
         ELSE [ok |-> FALSE, user |-> acc]
    ELSE [ok |-> TRUE,
          user |-> [acc EXCEPT !.stop_losses = Put(@, sym,
              [shares |-> shares, price |-> stop_price * 100,
               trailing |-> trailing, trailing_percent |-> trailing_percent,
               highest_price |-> IF trailing THEN stop_price ELSE 0])]]

\* set_stop_loss(user, sym, shares, stop_price, trailing, trailing_percent):
\* [ok, user].  A fixed order keeps None (here 0) as trailing_percent and
\* highest_price; a trailing order starts from the live quote.
set_stop_loss(acc, sym, shares, stop_price, trailing, trailing_percent) ==
    IF sym \notin DOMAIN acc.portfolio
    THEN [ok |-> FALSE, user |-> acc]
    ELSE IF shares > acc.portfolio[sym].shares
    THEN [ok |-> FALSE, user |-> acc]
    ELSE IF trailing /\ trailing_percent # 0
    THEN IF fetch_single_price_ok(sym)
         THEN LET current_price == fetch_single_price(sym)
              IN [ok |-> TRUE,
                  user |-> [acc EXCEPT !.stop_losses = Put(@, sym,
                      [shares |-> shares,
                       price |-> TrailingStopPrice(current_price, trailing_percent),
                       trailing |-> TRUE, trailing_percent |-> trailing_percent,
                       highest_price |-> current_price])]]
         ELSE [ok |-> FALSE, user |-> acc]
    ELSE [ok |-> TRUE,
          user |-> [acc EXCEPT !.stop_losses = Put(@, sym,
              [shares |-> shares, price |-> stop_price * 100,
               trailing |-> trailing, trailing_percent |-> trailing_percent,
               highest_price |-> IF trailing THEN stop_price ELSE 0])]]

\* shares_to_sell = int(total_shares * percentage / 100)
SharesToSell(total_shares, percentage) == (total_shares * percentage) \div 100

\* sell_percentage(user, sym, percentage, stocks) with the trader's answer to
\* the confirmation prompt: [ok, user].
sell_percentage(acc, sym, percentage, confirm) ==
    IF sym \notin DOMAIN acc.portfolio
    THEN [ok |-> FALSE, user |-> acc]
    ELSE IF ~(0 < percentage /\ percentage <= 100)
    THEN [ok |-> FALSE, user |-> acc]
    ELSE LET shares_to_sell == SharesToSell(acc.portfolio[sym].shares, percentage)
         IN IF shares_to_sell = 0 \/ ~HasQuote(sym) \/ ~confirm
            THEN [ok |-> FALSE, user |-> acc]
            ELSE [ok |-> TRUE, user |-> SellFrom(acc, sym, shares_to_sell, Quote(sym))]

\* order_id = f"{username}_{sym}_{order_type}_{int(time.time())}"
OrderId(name, sym, order_type, t) == <<name, sym, order_type, t>>

\* place_limit_order: pending_orders[order_id] = order.  Assigning to a key
\* the dict already has replaces the value and keeps the key's position.
\* created_time (datetime.now()) is finer than the second t of the id and is
\* later than that of every order placed before: it is kept as a logical
\* clock, one more than the latest created_time in the book.
place_limit_order(pend, name, sym, shares, target_price, order_type, t) ==
    LET latest == IF pend = <<>> THEN 0
                  ELSE CHOOSE c \in {pend[i].created_time : i \in 1..Len(pend)} :
                          \A i \in 1..Len(pend) : pend[i].created_time <= c
        order == [id |-> OrderId(name, sym, order_type, t), user |-> name,
                  symbol |-> sym, shares |-> shares, price |-> target_price,
                  type |-> order_type, created_time |-> latest + 1]
    IN IF \E i \in 1..Len(pend) : pend[i].id = order.id
       THEN [i \in 1..Len(pend) |-> IF pend[i].id = order.id THEN order ELSE pend[i]]
       ELSE Append(pend, order)

\* No symbol given on the command line.
NoSymbol == ""

\* cancel_order deleting the limit orders on the symbol whoever placed them.
cancel_order_AnyUser(acc, pend, name, order_type, symbol) ==
    IF order_type = "stoploss"
    THEN [user |-> [acc EXCEPT !.stop_losses =
                        IF symbol # NoSymbol /\ symbol \in DOMAIN @ THEN Del(@, symbol)
                        ELSE IF symbol = NoSymbol THEN Empty
                        ELSE @],
          pending |-> pend]
    ELSE IF order_type = "limit"
    THEN [user |-> acc,
          pending |-> IF symbol # NoSymbol
                      THEN SelectSeq(pend, LAMBDA o : o.symbol # symbol)
                      ELSE SelectSeq(pend, LAMBDA o : o.user # name)]
    ELSE [user |-> acc, pending |-> pend]

\* cancel_order(user, pending_orders, username, order_type, symbol):
\* [user, pending].
cancel_order(acc, pend, name, order_type, symbol) ==
    IF order_type = "stoploss"
    THEN [user |-> [acc EXCEPT !.stop_losses =
                        IF symbol # NoSymbol /\ symbol \in DOMAIN @ THEN Del(@, symbol)
                        ELSE IF symbol = NoSymbol THEN Empty
                        ELSE @],
          pending |-> pend]
    ELSE IF order_type = "limit"
    THEN [user |-> acc,
          pending |-> IF symbol # NoSymbol
                      THEN SelectSeq(pend, LAMBDA o : ~(o.user = name /\ o.symbol = symbol))
                      ELSE SelectSeq(pend, LAMBDA o : o.user # name)]
    ELSE [user |-> acc, pending |-> pend]

\* --------------------------------------------------------------- command loop
\* A write through the session's account object: users[username] is the same
\* object unless resetuser replaced the entry under the session's own name.
WriteUser(acc) ==
    /\ user' = acc
    /\ users' = IF aliased THEN [users EXCEPT ![username] = acc] ELSE users

\* A write through the users dict.
WriteUsers(usrs) ==
    /\ users' = usrs
    /\ user' = IF aliased THEN usrs[username] ELSE user

\* save_data(USERS_FILE, users); save_data(ORDERS_FILE, pending_orders), at
\* the end of the loop body.
Save == disk_users' = users' /\ disk_orders' = pending_orders'

\* 'continue': back to the top of the loop, past the save.
Continue == UNCHANGED <<disk_users, disk_orders>>

\* Reading one command at the prompt.  The records of the pass just run are
\* never read by main() and are overwritten by the next pass: they are dead
\* once the prompt returns and are dropped here.
Command ==
    /\ pc = "cmd"
    /\ cmds < MaxCmds
    /\ cmds' = cmds + 1
    /\ pc' = "stops"
    /\ executed_stop_losses' = <<>>
    /\ executed_limit_orders' = <<>>
    /\ UNCHANGED <<username, market, trades>>

Init ==
    /\ users = Empty
    /\ user = NewAccount
    /\ username = ""
    /\ aliased = TRUE
    /\ pending_orders = <<>>
    /\ stocks = Empty
    /\ market \in UNION {[D -> Prices] : D \in SUBSET Symbols}
    /\ executed_stop_losses = <<>>
    /\ executed_limit_orders = <<>>
    /\ disk_users = Empty
    /\ disk_orders = <<>>
    /\ now = 0
    /\ cmds = 0
    /\ pc = "login"
    /\ trades = <<>>

\* The quote source moves on its own, between passes of the evaluators: within
\* one evaluation tick it answers the same for the same symbol.
MarketMove ==
    /\ pc # "limits"
    /\ market' \in UNION {[D -> Prices] : D \in SUBSET Symbols}
    /\ market' # market
    /\ UNCHANGED <<users, user, username, aliased, pending_orders, stocks,
                   executed_stop_losses, executed_limit_orders, disk_users,
                   disk_orders, now, cmds, pc, trades>>

\* main() up to the command loop: load the files, create the account of a
\* new trader, fetch the tracked prices.
Login(name) ==
    /\ pc = "login"
    /\ cmds < MaxCmds
    /\ LET loaded == IF name \in DOMAIN disk_users THEN disk_users
                     ELSE Put(disk_users, name, NewAccount)
       IN /\ users' = loaded
          /\ user' = loaded[name]
    /\ username' = name
    /\ aliased' = TRUE
    /\ pending_orders' = disk_orders
    /\ stocks' = fetch_prices
    /\ executed_stop_losses' = <<>>
    /\ executed_limit_orders' = <<>>
    /\ pc' = "stops"
    /\ UNCHANGED <<market, disk_users, disk_orders, now, cmds, trades>>

\* executed_stop_losses = check_stop_losses(user, stocks)
CheckStopLosses ==
    /\ pc = "stops"
    /\ LET r == check_stop_losses(user)
       IN /\ WriteUser(r.user)
          /\ executed_stop_losses' = r.executed
    /\ pc' = "limits"
    /\ UNCHANGED <<username, aliased, pending_orders, stocks, market,
                   executed_limit_orders, disk_users, disk_orders, now, cmds, trades>>

\* executed_limit_orders = process_limit_orders(pending_orders, stocks, users)
ProcessLimitOrders ==
    /\ pc = "limits"
    /\ LET r == process_limit_orders(pending_orders, users)
       IN /\ WriteUsers(r.users)
          /\ pending_orders' = r.pending
          /\ executed_limit_orders' = r.executed
    /\ pc' = "cmd"
    /\ UNCHANGED <<username, aliased, stocks, market, executed_stop_losses,
                   disk_users, disk_orders, now, cmds, trades>>

\* Buy without the check of the balance against the cost.
Buy_NoFundsCheck(sym, shares, confirm) ==
    /\ Command
    /\ UNCHANGED <<aliased, pending_orders, now>>
    /\ IF ~HasQuote(sym)
       THEN /\ Continue
            /\ UNCHANGED <<users, user, stocks>>
       ELSE /\ stocks' = IF sym \in DOMAIN stocks THEN stocks
                         ELSE Put(stocks, sym, fetch_single_price(sym))
            /\ IF shares <= 0 \/ ~confirm
               THEN /\ Continue
                    /\ UNCHANGED <<users, user>>
               ELSE /\ WriteUser(BuyInto(user, sym, shares, Quote(sym)))
                    /\ Save

\* buy <symbol> <shares>, with the answer to the confirmation prompt.
Buy(sym, shares, confirm) ==
    /\ Command
    /\ UNCHANGED <<aliased, pending_orders, now>>
    /\ IF ~HasQuote(sym)
       THEN /\ Continue
            /\ UNCHANGED <<users, user, stocks>>
       ELSE /\ stocks' = IF sym \in DOMAIN stocks THEN stocks
                         ELSE Put(stocks, sym, fetch_single_price(sym))
            /\ IF shares <= 0 \/ user.balance < Quote(sym) * shares \/ ~confirm
               THEN /\ Continue
                    /\ UNCHANGED <<users, user>>
               ELSE /\ WriteUser(BuyInto(user, sym, shares, Quote(sym)))
                    /\ Save

\* sell <symbol> <shares>, with the answer to the confirmation prompt.
Sell(sym, shares, confirm) ==
    /\ Command
    /\ UNCHANGED <<aliased, pending_orders, stocks, now>>
    /\ IF \/ sym \notin DOMAIN user.portfolio
          \/ ~HasQuote(sym)
          \/ shares <= 0
          \/ shares > user.portfolio[sym].shares
          \/ ~confirm
       THEN /\ Continue
            /\ UNCHANGED <<users, user>>
       ELSE /\ WriteUser(SellFrom(user, sym, shares, Quote(sym)))
            /\ Save

\* sellpct <symbol> <percentage>
SellPct(sym, percentage, confirm) ==
    /\ Command
    /\ UNCHANGED <<aliased, pending_orders, stocks, now>>
    /\ WriteUser(sell_percentage(user, sym, percentage, confirm).user)
    /\ Save

\* limitbuy <symbol> <shares> <price>, typed at clock second t.
LimitBuy(sym, shares, target_price, t) ==
    /\ Command
    /\ UNCHANGED <<users, user, aliased, stocks>>
    /\ t \in now..MaxTime
    /\ IF shares <= 0 \/ target_price <= 0
       THEN /\ UNCHANGED <<pending_orders, now>>
            /\ Save
       ELSE IF user.balance < target_price * shares
       THEN /\ UNCHANGED <<pending_orders, now>>
            /\ Continue
       ELSE /\ pending_orders' = place_limit_order(pending_orders, username, sym,
                                                   shares, target_price, "buy", t)
            /\ now' = t
            /\ Save

\* limitsell <symbol> <shares> <price>, typed at clock second t.
LimitSell(sym, shares, target_price, t) ==
    /\ Command
    /\ UNCHANGED <<users, user, aliased, stocks>>
    /\ t \in now..MaxTime
    /\ IF shares <= 0 \/ target_price <= 0
       THEN /\ UNCHANGED <<pending_orders, now>>
            /\ Save
       ELSE IF sym \notin DOMAIN user.portfolio \/ user.portfolio[sym].shares < shares
       THEN /\ UNCHANGED <<pending_orders, now>>
            /\ Continue
       ELSE /\ pending_orders' = place_limit_order(pending_orders, username, sym,
                                                   shares, target_price, "sell", t)
            /\ now' = t
            /\ Save

\* stoploss <symbol> <shares> <price>
StopLoss(sym, shares, stop_price) ==
    /\ Command
    /\ UNCHANGED <<aliased, pending_orders, stocks, now>>
    /\ IF shares <= 0 \/ stop_price <= 0
       THEN UNCHANGED <<users, user>>
       ELSE WriteUser(set_stop_loss(user, sym, shares, stop_price, FALSE, 0).user)
    /\ Save

\* trailstop <symbol> <shares> <percent>
TrailStop(sym, shares, trailing_percent) ==
    /\ Command
    /\ UNCHANGED <<aliased, pending_orders, stocks, now>>
    /\ IF shares <= 0 \/ trailing_percent <= 0 \/ trailing_percent >= 100
       THEN UNCHANGED <<users, user>>
       ELSE WriteUser(set_stop_loss(user, sym, shares, 0, TRUE, trailing_percent).user)
    /\ Save

\* cancel <stoploss|limit> [symbol]
Cancel(order_type, symbol) ==
    /\ Command
    /\ UNCHANGED <<aliased, stocks, now>>
    /\ LET r == cancel_order(user, pending_orders, username, order_type, symbol)
       IN /\ WriteUser(r.user)
          /\ pending_orders' = r.pending
    /\ Save

\* refresh: the new quotes replace the pre-fetched ones unless none came.
Refresh ==
    /\ Command
    /\ UNCHANGED <<users, user, aliased, pending_orders, now>>
    /\ stocks' = IF fetch_prices # Empty THEN fetch_prices ELSE stocks
    /\ Save

\* A command that changes nothing and reaches the save (help, prices, orders,
\* portfolio, an unknown command, ...).
Other ==
    /\ Command
    /\ UNCHANGED <<users, user, aliased, pending_orders, stocks, now>>
    /\ Save

\* A command line that takes 'continue' before doing anything (an empty line,
\* a command with the wrong number of arguments).
Skip ==
    /\ Command
    /\ UNCHANGED <<users, user, aliased, pending_orders, stocks, now>>
    /\ Continue

\* resetuser <username> (admin)
ResetUser(target_user, confirm) ==
    /\ Command
    /\ UNCHANGED <<user, pending_orders, stocks, now>>
    /\ username \in admin_users
    /\ IF target_user \in DOMAIN users /\ confirm
       THEN /\ users' = [users EXCEPT ![target_user] = NewAccount]
            /\ aliased' = (aliased /\ target_user # username)
       ELSE UNCHANGED <<users, aliased>>
    /\ Save

\* deleteuser <username> (admin)
DeleteUser(target_user, confirm) ==
    /\ Command
    /\ UNCHANGED <<user, aliased, pending_orders, stocks, now>>
    /\ username \in admin_users
    /\ users' = IF target_user \in DOMAIN users /\ target_user # username /\ confirm
                THEN Del(users, target_user) ELSE users
    /\ Save

\* setbalance <username> <amount> (admin)
SetBalance(target_user, new_balance) ==
    /\ Command
    /\ UNCHANGED <<aliased, pending_orders, stocks, now>>
    /\ username \in admin_users
    /\ IF target_user \in DOMAIN users
       THEN WriteUsers([users EXCEPT ![target_user].balance = new_balance])
       ELSE UNCHANGED <<users, user>>
    /\ Save

\* clearorders (admin)
ClearOrders(confirm) ==
    /\ Command
    /\ UNCHANGED <<users, user, aliased, stocks, now>>
    /\ username \in admin_users
    /\ pending_orders' = IF Len(pending_orders) > 0 /\ confirm THEN <<>> ELSE pending_orders
    /\ Save

\* quit: the loop breaks before the save and the process ends; the next run
\* starts from the files.
Quit ==
    /\ pc = "cmd"
    /\ cmds < MaxCmds
    /\ cmds' = cmds + 1
    /\ pc' = "login"
    /\ users' = Empty
    /\ user' = NewAccount
    /\ username' = ""
    /\ aliased' = TRUE
    /\ pending_orders' = <<>>
    /\ stocks' = Empty
    /\ executed_stop_losses' = <<>>
    /\ executed_limit_orders' = <<>>
    /\ UNCHANGED <<market, disk_users, disk_orders, now, trades>>

Next ==
    \/ MarketMove
    \/ \E name \in Names : Login(name)
    \/ CheckStopLosses
    \/ ProcessLimitOrders
    \/ \E sym \in Symbols, shares \in ShareInputs, confirm \in BOOLEAN : Buy(sym, shares, confirm)
    \/ \E sym \in Symbols, shares \in ShareInputs, confirm \in BOOLEAN : Sell(sym, shares, confirm)
    \/ \E sym \in Symbols, pct \in SellPctInputs, confirm \in BOOLEAN : SellPct(sym, pct, confirm)
    \/ \E sym \in Symbols, shares \in ShareInputs, p \in PriceInputs, t \in 0..MaxTime :
          LimitBuy(sym, shares, p, t)
    \/ \E sym \in Symbols, shares \in ShareInputs, p \in PriceInputs, t \in 0..MaxTime :
          LimitSell(sym, shares, p, t)
    \/ \E sym \in Symbols, shares \in ShareInputs, p \in PriceInputs : StopLoss(sym, shares, p)
    \/ \E sym \in Symbols, shares \in ShareInputs, pct \in TrailInputs :
          TrailStop(sym, shares, pct)
    \/ \E order_type \in {"stoploss", "limit"}, symbol \in Symbols \cup {NoSymbol} :
          Cancel(order_type, symbol)
    \/ Refresh
    \/ Other
    \/ Skip
    \/ \E target \in Names, confirm \in BOOLEAN : ResetUser(target, confirm)
    \/ \E target \in Names, confirm \in BOOLEAN : DeleteUser(target, confirm)
    \/ \E target \in Names, b \in BalanceInputs : SetBalance(target, b)
    \/ \E confirm \in BOOLEAN : ClearOrders(confirm)
    \/ Quit

Spec == Init /\ [][Next]_vars

\* ------------------------------------------------------------ the ledger alone
\* The position ledger driven directly: the purchases (buy command, limit-buy
\* fill) and sales (sell command, sellpct, limit-sell fill) that go through, at
\* any quote price, applied to one account.  trades keeps, for every holding
\* still open, the trades since it was opened; a sale records the average cost
\* and the shares it left behind.
LedgerInit == Init /\ market = Empty

\* A purchase that goes through: shares > 0 and the balance covers the cost
\* (main.py:1367-1378, 451-452).
LedgerBuy(sym, shares, current_price) ==
    /\ cmds < MaxTrades
    /\ shares > 0
    /\ user.balance >= current_price * shares
    /\ user' = BuyInto(user, sym, shares, current_price)
    /\ trades' = Append(trades, [type |-> "buy", symbol |-> sym, shares |-> shares,
                                 price |-> current_price])
    /\ cmds' = cmds + 1
    /\ UNCHANGED <<users, username, aliased, pending_orders, stocks, market,
                   executed_stop_losses, executed_limit_orders, disk_users,
                   disk_orders, now, pc>>

\* A sale that goes through: the holding exists and covers the shares
\* (main.py:1428-1443, 475).  Selling the whole holding closes it.
LedgerSell(sym, shares, current_price) ==
    /\ cmds < MaxTrades
    /\ sym \in DOMAIN user.portfolio
    /\ shares > 0
    /\ shares <= user.portfolio[sym].shares
    /\ user' = SellFrom(user, sym, shares, current_price)
    /\ trades' = IF shares = user.portfolio[sym].shares
                 THEN SelectSeq(trades, LAMBDA t : t.symbol # sym)
                 ELSE Append(trades, [type |-> "sell", symbol |-> sym, shares |-> shares,
                                      price |-> current_price,
                                      avg_cost |-> user.portfolio[sym].avg_cost,
                                      left |-> user.portfolio[sym].shares - shares])
    /\ cmds' = cmds + 1
    /\ UNCHANGED <<users, username, aliased, pending_orders, stocks, market,
                   executed_stop_losses, executed_limit_orders, disk_users,
                   disk_orders, now, pc>>

LedgerNext ==
    \/ \E sym \in Symbols, shares \in ShareInputs, p \in Prices : LedgerBuy(sym, shares, p)
    \/ \E sym \in Symbols, shares \in ShareInputs, p \in Prices : LedgerSell(sym, shares, p)

LedgerSpec == LedgerInit /\ [][LedgerNext]_vars

\* ---------------------------------------------------- the order book, two symbols
\* One trader with an account on file placing buy limit orders on two symbols,
\* and the evaluation ticks in between.
BookInit ==
    /\ users = Empty
    /\ user = NewAccount
    /\ username = ""
    /\ aliased = TRUE
    /\ pending_orders = <<>>
    /\ stocks = Empty
    /\ market \in UNION {[D -> BookPrices] : D \in SUBSET BookSymbols}
    /\ executed_stop_losses = <<>>
    /\ executed_limit_orders = <<>>
    /\ disk_users \in {[n \in {"bob"} |-> [NewAccount EXCEPT !.balance = b]] : b \in BookBalances}
    /\ disk_orders = <<>>
    /\ now = 0
    /\ cmds = 0
    /\ pc = "login"
    /\ trades = <<>>

\* The quote source moves on its own, as in MarketMove.
BookMarketMove ==
    /\ pc # "limits"
    /\ market' \in UNION {[D -> BookPrices] : D \in SUBSET BookSymbols}
    /\ market' # market
    /\ UNCHANGED <<users, user, username, aliased, pending_orders, stocks,
                   executed_stop_losses, executed_limit_orders, disk_users,
                   disk_orders, now, cmds, pc, trades>>

BookNext ==
    \/ BookMarketMove
    \/ \E name \in DOMAIN disk_users : Login(name)
    \/ CheckStopLosses
    \/ ProcessLimitOrders
    \/ \E sym \in BookSymbols, shares \in ShareInputs, p \in PriceInputs, t \in 0..MaxTime :
          LimitBuy(sym, shares, p, t)

BookSpec == BookInit /\ [][BookNext]_vars

\* ------------------------------------------------ one trader, trailing stops
\* One trader, new or with a position of 10 shares bought at 100 already on
\* file, who buys, places limit orders and sets trailing stops, with the
\* evaluation ticks in between.
TrailInit ==
    /\ users = Empty
    /\ user = NewAccount
    /\ username = ""
    /\ aliased = TRUE
    /\ pending_orders = <<>>
    /\ stocks = Empty
    /\ market \in UNION {[D -> Prices] : D \in SUBSET Symbols}
    /\ executed_stop_losses = <<>>
    /\ executed_limit_orders = <<>>
    /\ disk_users \in {Empty} \cup
          {[n \in {"bob"} |-> BuyInto(NewAccount, sym, shares, 100)] :
              sym \in Symbols, shares \in TrailShares}
    /\ disk_orders = <<>>
    /\ now = 0
    /\ cmds = 0
    /\ pc = "login"
    /\ trades = <<>>

TrailNext ==
    \/ MarketMove
    \/ Login("bob")
    \/ CheckStopLosses
    \/ ProcessLimitOrders
    \/ \E sym \in Symbols, shares \in TrailShares, confirm \in BOOLEAN : Buy(sym, shares, confirm)
    \/ \E sym \in Symbols, shares \in TrailShares, p \in PriceInputs, t \in 0..MaxTime :
          LimitBuy(sym, shares, p, t)
    \/ \E sym \in Symbols, shares \in TrailShares, p \in PriceInputs, t \in 0..MaxTime :
          LimitSell(sym, shares, p, t)
    \/ \E sym \in Symbols, shares \in TrailShares, pct \in TrailPercents :
          TrailStop(sym, shares, pct)
    \/ Other

TrailSpec == TrailInit /\ [][TrailNext]_vars

\* ------------------------------------------- two traders cancelling their orders
\* Both traders have an account on file holding shares of each symbol, bought
\* at 100, with stop orders on some of them and limit orders pending; the
\* quote source is down, so the evaluation ticks skip every order, and the
\* sessions cancel orders.
OnFileAccount(stops, shares) ==
    LET RECURSIVE Bought(_, _)
        Bought(acc, syms) ==
            IF syms = {} THEN acc
            ELSE LET sym == CHOOSE x \in syms : TRUE
                 IN Bought(BuyInto(acc, sym, shares, 100), syms \ {sym})
        RECURSIVE Stopped(_, _)
        Stopped(acc, syms) ==
            IF syms = {} THEN acc
            ELSE LET sym == CHOOSE x \in syms : TRUE
                 IN Stopped(set_stop_loss(acc, sym, shares, 113, FALSE, 0).user,
                            syms \ {sym})
    IN Stopped(Bought(NewAccount, BookSymbols), stops)

\* The book after the placements, each <<name, symbol, type>>, all typed
\* within the clock second 0.
RECURSIVE OnFileOrders(_, _)
OnFileOrders(placements, shares) ==
    IF placements = <<>> THEN <<>>
    ELSE LET n == Len(placements)
             last == placements[n]
         IN place_limit_order(OnFileOrders(SubSeq(placements, 1, n - 1), shares),
                              last[1], last[2], shares, 113, last[3], 0)

\* Placements of different orders: no two under one id.
Placements ==
    {p \in UNION {[1..k -> Names \X BookSymbols \X {"buy", "sell"}] : k \in 0..MaxOnFile} :
        \A i, j \in 1..Len(p) : p[i] = p[j] => i = j}

CancelInit ==
    /\ users = Empty
    /\ user = NewAccount
    /\ username = ""
    /\ aliased = TRUE
    /\ pending_orders = <<>>
    /\ stocks = Empty
    /\ market = Empty
    /\ executed_stop_losses = <<>>
    /\ executed_limit_orders = <<>>
    /\ \E shares \in OnFileShares :
          /\ disk_users \in {[n \in Names |-> OnFileAccount(stops, shares)] :
                                 stops \in SUBSET BookSymbols}
          /\ disk_orders \in {OnFileOrders(p, shares) : p \in Placements}
    /\ now = 0
    /\ cmds = 0
    /\ pc = "login"
    /\ trades = <<>>

CancelNext ==
    \/ \E name \in Names : Login(name)
    \/ CheckStopLosses
    \/ ProcessLimitOrders
    \/ \E order_type \in {"stoploss", "limit"}, symbol \in BookSymbols \cup {NoSymbol} :
          Cancel(order_type, symbol)

CancelSpec == CancelInit /\ [][CancelNext]_vars

\* ===================================================================== claims
\* Every account object of the running program: the entries of users and the
\* session's own object.
Accounts == {users[n] : n \in DOMAIN users} \cup {user}

\* A step of the stop-loss pass and of the limit-order pass.
StopPass == pc = "stops" /\ pc' = "limits"
LimitPass == pc = "limits" /\ pc' = "cmd"

Min(a, b) == IF a <= b THEN a ELSE b

\* Shares of sym the account holds (0 when it has no holding).
Held(acc, sym) == IF sym \in DOMAIN acc.portfolio THEN acc.portfolio[sym].shares ELSE 0

\* The records of a pass about sym.
RecordsOf(executed, sym) == {i \in 1..Len(executed) : executed[i].symbol = sym}

\* Sum over the records of a stop-loss pass of price * min(order shares, held
\* shares), the order and the holding taken from the account before the pass.
RECURSIVE MinSharesRevenue(_, _, _)
MinSharesRevenue(executed, acc, i) ==
    IF i > Len(executed) THEN 0
    ELSE LET r == executed[i]
         IN r.price * Min(acc.stop_losses[r.symbol].shares, Held(acc, r.symbol))
            + MinSharesRevenue(executed, acc, i + 1)

\* C1: a stop order that triggers in the stop-loss pass sells min(order.shares,
\* held shares): the record reports that number, the holding goes down by it
\* and the balance goes up by that number times the quote price.
C1_StopSellsMinOfOrderAndHeld ==
    [][StopPass =>
        /\ \A i \in 1..Len(executed_stop_losses') :
              LET r == executed_stop_losses'[i]
                  sold == Min(user.stop_losses[r.symbol].shares, Held(user, r.symbol))
              IN /\ r.shares = sold
                 /\ Held(user', r.symbol) = Held(user, r.symbol) - sold
        /\ user'.balance = user.balance + MinSharesRevenue(executed_stop_losses', user, 1)
      ]_vars

\* C2: a step in which a holding of an account disappears leaves that account
\* without a stop order on the symbol.
C2_SaleToZeroDeletesStopOrder ==
    [][/\ \A n \in (DOMAIN users) \cap (DOMAIN users'), sym \in Symbols :
            (sym \in DOMAIN users[n].portfolio /\ sym \notin DOMAIN users'[n].portfolio)
            => sym \notin DOMAIN users'[n].stop_losses
       /\ \A sym \in Symbols :
            (pc' # "login" /\ sym \in DOMAIN user.portfolio /\ sym \notin DOMAIN user'.portfolio)
            => sym \notin DOMAIN user'.stop_losses
      ]_vars

\* C3: every symbol with a stop order in an account has a holding in it.
C3_StopOrdersHaveHoldings ==
    \A acc \in Accounts : DOMAIN acc.stop_losses \subseteq DOMAIN acc.portfolio

\* The only pending order of its owner, so that the pass evaluates it against
\* the owner's account as it is before the pass and nothing else touches it.
OnlyOrderOfOwner(i) ==
    /\ pending_orders[i].user \in DOMAIN users
    /\ \A j \in 1..Len(pending_orders) :
          pending_orders[j].user = pending_orders[i].user => j = i

StillPending(order) == \E j \in 1..Len(pending_orders') : pending_orders'[j] = order

\* C4: a pending buy order whose price condition is met while the owner's
\* (non-negative) balance is below shares * quote price stays pending through
\* the pass, and the owner's account is unchanged.
C4_UnfundedBuyStaysPending ==
    [][LimitPass =>
        \A i \in 1..Len(pending_orders) :
           LET o == pending_orders[i]
           IN (/\ OnlyOrderOfOwner(i)
               /\ o.type = "buy"
               /\ HasQuote(o.symbol)
               /\ Quote(o.symbol) <= o.price
               /\ users[o.user].balance >= 0
               /\ users[o.user].balance < o.shares * Quote(o.symbol))
              => /\ StillPending(o)
                 /\ users'[o.user] = users[o.user]
      ]_vars

\* C5: a pending sell order whose price condition is met while the owner holds
\* fewer shares than the order's stays pending through the pass, and the
\* owner's account is unchanged.  Stated for a session whose account object is
\* the entry of users under its name.
C5_UncoveredSellStaysPending ==
    [][LimitPass =>
        \A i \in 1..Len(pending_orders) :
           LET o == pending_orders[i]
           IN (/\ aliased
               /\ OnlyOrderOfOwner(i)
               /\ o.type = "sell"
               /\ HasQuote(o.symbol)
               /\ Quote(o.symbol) >= o.price
               /\ Held(users[o.user], o.symbol) < o.shares)
              => /\ StillPending(o)
                 /\ users'[o.user] = users[o.user]
      ]_vars

\* C6: no account ever has a negative balance.
C6_BalanceNeverNegative ==
    \A acc \in Accounts : acc.balance >= 0

\* C7: every holding entry, in memory and on disk, has a strictly positive
\* share count.
C7_HoldingsStrictlyPositive ==
    /\ \A acc \in Accounts : \A sym \in DOMAIN acc.portfolio : acc.portfolio[sym].shares > 0
    /\ \A n \in DOMAIN disk_users : \A sym \in DOMAIN disk_users[n].portfolio :
          disk_users[n].portfolio[sym].shares > 0

\* A stop-loss pass has just sold part of a holding and the rest is still held.
C7_Witness ==
    /\ pc = "limits"
    /\ \E i \in 1..Len(executed_stop_losses) :
          LET r == executed_stop_losses[i]
          IN r.symbol \in DOMAIN user.portfolio /\ user.portfolio[r.symbol].shares > 0

\* C8: in a stop-loss pass, a fixed stop order whose holding exists and whose
\* quote is available triggers iff quote price <= stop price; when it triggers
\* it does so once (one record) and the order is gone after the pass; when it
\* does not, the order is left as it was.
C8_FixedStopTriggersIffAtOrBelow ==
    [][StopPass =>
        \A sym \in DOMAIN user.stop_losses :
           LET o == user.stop_losses[sym]
               recs == RecordsOf(executed_stop_losses', sym)
           IN (~o.trailing /\ sym \in DOMAIN user.portfolio /\ HasQuote(sym))
              => IF Quote(sym) * 100 <= o.price
                 THEN Cardinality(recs) = 1 /\ sym \notin DOMAIN user'.stop_losses
                 ELSE recs = {} /\ sym \in DOMAIN user'.stop_losses
                      /\ user'.stop_losses[sym] = o
      ]_vars

\* A fixed stop order has just triggered at a quote equal to its stop price.
C8_Witness ==
    /\ pc = "limits"
    /\ \E i \in 1..Len(executed_stop_losses) :
          LET r == executed_stop_losses[i]
          IN /\ ~r.trailing
             /\ r.price * 100 = r.stop_price
             /\ r.symbol \notin DOMAIN user.stop_losses

\* C9: over the passes of an evaluation tick a trailing stop order's
\* highest_price and stop price never decrease, and a stop-loss pass whose
\* quote is not above highest_price (or is unavailable) leaves the order as it
\* was unless it triggers.
C9_TrailingStopNeverMovesDown ==
    [][(StopPass \/ LimitPass) =>
        \A sym \in (DOMAIN user.stop_losses) \cap (DOMAIN user'.stop_losses) :
           LET o == user.stop_losses[sym]
               o2 == user'.stop_losses[sym]
           IN o.trailing
              => /\ o2.trailing
                 /\ o2.highest_price >= o.highest_price
                 /\ o2.price >= o.price
                 /\ (~HasQuote(sym) \/ Quote(sym) <= o.highest_price) => o2 = o
      ]_vars

\* A trailing stop order has just been through a stop-loss pass whose quote was
\* below its highest_price, and is still there.
C9_Witness ==
    /\ pc = "limits"
    /\ \E sym \in DOMAIN user.stop_losses :
          /\ user.stop_losses[sym].trailing
          /\ sym \in DOMAIN user.portfolio
          /\ HasQuote(sym)
          /\ Quote(sym) < user.stop_losses[sym].highest_price

\* C10: in a stop-loss pass, a trailing stop order with 0 < trailing_percent <
\* 100 whose holding exists and whose quote is above highest_price does not
\* trigger: the order is still there after the pass, no record is emitted for
\* it, and its new stop price is strictly below the quote price.
C10_NewHighNeverTriggers ==
    [][StopPass =>
        \A sym \in DOMAIN user.stop_losses :
           LET o == user.stop_losses[sym]
           IN (/\ o.trailing
               /\ 0 < o.trailing_percent /\ o.trailing_percent < 100
               /\ sym \in DOMAIN user.portfolio
               /\ HasQuote(sym)
               /\ Quote(sym) > o.highest_price)
              => /\ sym \in DOMAIN user'.stop_losses
                 /\ RecordsOf(executed_stop_losses', sym) = {}
                 /\ user'.stop_losses[sym].highest_price = Quote(sym)
                 /\ user'.stop_losses[sym].price < Quote(sym) * 100
      ]_vars

\* A trailing stop order has been ratcheted by a pass since the command that
\* set it was saved: its highest_price in memory is above the one on disk.
C10_Witness ==
    /\ pc = "limits"
    /\ aliased
    /\ username \in DOMAIN disk_users
    /\ \E sym \in (DOMAIN user.stop_losses) \cap (DOMAIN disk_users[username].stop_losses) :
          /\ user.stop_losses[sym].trailing
          /\ disk_users[username].stop_losses[sym].trailing
          /\ user.stop_losses[sym].highest_price
                > disk_users[username].stop_losses[sym].highest_price

\* The record r of a limit pass is about the order o.
Matches(o, r) ==
    /\ r.user = o.user /\ r.type = o.type /\ r.symbol = o.symbol
    /\ r.shares = o.shares /\ r.target_price = o.price

\* The records of a limit pass about the orders of the account n.
LimitRecordsOf(executed, n) == {k \in 1..Len(executed) : executed[k].user = n}

\* The account has the cash (buy) or the shares (sell) the order needs at the
\* quote price q.
Sufficient(acc, o, q) ==
    IF o.type = "buy" THEN acc.balance >= o.shares * q
    ELSE Held(acc, o.symbol) >= o.shares

\* C11: in a limit pass, an order whose owner exists, whose quote is available
\* and whose owner has the cash (buy) or the shares (sell) it needs fills iff
\* quote price <= target price (buy), quote price >= target price (sell); an
\* order that does not fill stays pending and leaves the account as it was.
C11_LimitFillsIffPriceReached ==
    [][LimitPass =>
        \A i \in 1..Len(pending_orders) :
           LET o == pending_orders[i]
               q == Quote(o.symbol)
               filled == LimitRecordsOf(executed_limit_orders', o.user) # {}
           IN (/\ OnlyOrderOfOwner(i)
               /\ HasQuote(o.symbol)
               /\ Sufficient(users[o.user], o, q))
              => /\ o.type = "buy" => (filled <=> q <= o.price)
                 /\ o.type = "sell" => (filled <=> q >= o.price)
                 /\ filled => ~StillPending(o) /\ users'[o.user] # users[o.user]
                 /\ ~filled => StillPending(o) /\ users'[o.user] = users[o.user]
      ]_vars

\* A limit order has just filled at a quote equal to its target price.
C11_Witness ==
    /\ pc = "cmd"
    /\ \E k \in 1..Len(executed_limit_orders) :
          executed_limit_orders[k].execution_price = executed_limit_orders[k].target_price

\* C12: a limit order that fills in a limit pass fills at the quote price: the
\* record reports the quote price, a buy takes shares * quote price from the
\* balance and adds the order's shares to the holding, a sell adds shares *
\* quote price to the balance and takes the order's shares from the holding,
\* and the order is no longer pending.
C12_FillsAtQuotePrice ==
    [][LimitPass =>
        \A i \in 1..Len(pending_orders) :
           LET o == pending_orders[i]
               q == Quote(o.symbol)
               recs == LimitRecordsOf(executed_limit_orders', o.user)
               sign == IF o.type = "buy" THEN 1 ELSE -1
           IN (OnlyOrderOfOwner(i) /\ recs # {})
              => /\ \A k \in recs : executed_limit_orders'[k].execution_price = q
                 /\ users'[o.user].balance = users[o.user].balance - sign * o.shares * q
                 /\ Held(users'[o.user], o.symbol)
                       = Held(users[o.user], o.symbol) + sign * o.shares
                 /\ ~StillPending(o)
      ]_vars

\* A sell order for part of a holding has just filled at a quote above its
\* target price: the rest of the holding is there and the order is gone.
C12_Witness ==
    /\ pc = "cmd"
    /\ \E k \in 1..Len(executed_limit_orders) :
          LET r == executed_limit_orders[k]
          IN /\ r.type = "sell"
             /\ r.execution_price > r.target_price
             /\ r.user \in DOMAIN users
             /\ Held(users[r.user], r.symbol) > 0
             /\ \A j \in 1..Len(pending_orders) : pending_orders[j].user # r.user

\* The cash and the shares of sym the records of a limit pass account for, for
\* the account n.
RECURSIVE CashEffect(_, _, _)
CashEffect(executed, n, k) ==
    IF k > Len(executed) THEN 0
    ELSE (IF executed[k].user # n THEN 0
          ELSE IF executed[k].type = "buy"
          THEN 0 - executed[k].shares * executed[k].execution_price
          ELSE executed[k].shares * executed[k].execution_price)
         + CashEffect(executed, n, k + 1)

RECURSIVE ShareEffect(_, _, _, _)
ShareEffect(executed, n, sym, k) ==
    IF k > Len(executed) THEN 0
    ELSE (IF executed[k].user # n \/ executed[k].symbol # sym THEN 0
          ELSE IF executed[k].type = "buy" THEN executed[k].shares
          ELSE 0 - executed[k].shares)
         + ShareEffect(executed, n, sym, k + 1)

\* C13: every record of a limit pass is about an order that was pending before
\* the pass and is not after it, one record per such order at most, and the
\* pass changes an account's balance and holdings by what its records say and
\* by nothing else: an order that is no longer pending changes nothing.
C13_FilledOrderActsOnce ==
    [][LimitPass =>
        \A n \in DOMAIN users :
           LET recs == LimitRecordsOf(executed_limit_orders', n)
               gone == {i \in 1..Len(pending_orders) :
                           pending_orders[i].user = n /\ ~StillPending(pending_orders[i])}
           IN /\ Cardinality(recs) <= Cardinality(gone)
              /\ \A k \in recs : \E i \in gone :
                    Matches(pending_orders[i], executed_limit_orders'[k])
              /\ users'[n].balance
                    = users[n].balance + CashEffect(executed_limit_orders', n, 1)
              /\ \A sym \in Symbols :
                    Held(users'[n], sym)
                       = Held(users[n], sym) + ShareEffect(executed_limit_orders', n, sym, 1)
      ]_vars

\* A limit order saved as pending has just filled: there is a record of it and
\* it is no longer in the book in memory.
C13_Witness ==
    /\ pc = "cmd"
    /\ \E k \in 1..Len(executed_limit_orders) :
          /\ \E j \in 1..Len(disk_orders) : Matches(disk_orders[j], executed_limit_orders[k])
          /\ \A j \in 1..Len(pending_orders) :
                ~Matches(pending_orders[j], executed_limit_orders[k])

\* The trades of the history about sym, and the purchases among them.
TradesOf(sym) == SelectSeq(trades, LAMBDA t : t.symbol = sym)
BuysOf(sym) == SelectSeq(trades, LAMBDA t : t.symbol = sym /\ t.type = "buy")

\* Sum of price * shares and sum of shares over a sequence of purchases.
RECURSIVE SumCost(_)
SumCost(buys) == IF buys = <<>> THEN 0 ELSE Head(buys).price * Head(buys).shares + SumCost(Tail(buys))
RECURSIVE SumShares(_)
SumShares(buys) == IF buys = <<>> THEN 0 ELSE Head(buys).shares + SumShares(Tail(buys))

\* The account after the purchases buys[perm[1]], buys[perm[2]], ... are
\* applied to acc in that order.
RECURSIVE BuyAll(_, _, _, _)
BuyAll(acc, buys, perm, i) ==
    IF i > Len(buys) THEN acc
    ELSE BuyAll(BuyInto(acc, buys[perm[i]].symbol, buys[perm[i]].shares, buys[perm[i]].price),
                buys, perm, i + 1)

\* An account that holds nothing.
NoHoldings == [balance |-> 0, portfolio |-> Empty, stop_losses |-> Empty]

\* C14 as stated: the average cost of a holding is sum(price * shares) /
\* sum(shares) over all the purchases since it was opened, partial sales in
\* between or not, and applying those purchases in any order gives the same
\* average cost.
C14_AvgCostIsMeanOfAllBuys ==
    \A sym \in DOMAIN user.portfolio :
       LET buys == BuysOf(sym)
       IN /\ user.portfolio[sym].avg_cost = Frac(SumCost(buys), SumShares(buys))
          /\ \A perm \in Permutations(1..Len(buys)) :
                BuyAll(NoHoldings, buys, perm, 1).portfolio[sym].avg_cost
                   = user.portfolio[sym].avg_cost

\* Index in ts of the last sale (0 when there is none).
LastSale(ts) ==
    IF \E i \in 1..Len(ts) : ts[i].type = "sell"
    THEN CHOOSE i \in 1..Len(ts) : ts[i].type = "sell" /\ \A j \in (i + 1)..Len(ts) : ts[j].type = "buy"
    ELSE 0

\* C14 amended: the average cost of a holding is the share-weighted mean of
\* the purchases since the last partial sale of it together with the shares
\* that sale left, taken at the average cost they had (with no sale: of all
\* the purchases since the holding was opened); the purchases since then give
\* the same average cost in any order; right after a partial sale the average
\* cost is what it was before it.
C14_AvgCostIsMeanSinceLastSale ==
    \A sym \in DOMAIN user.portfolio :
       LET ts == TradesOf(sym)
           k == LastSale(ts)
           buys == SubSeq(ts, k + 1, Len(ts))
           left == IF k = 0 THEN 0 ELSE ts[k].left
           avg == IF k = 0 THEN <<0, 1>> ELSE ts[k].avg_cost
           start == IF k = 0 THEN NoHoldings
                    ELSE [NoHoldings EXCEPT !.portfolio =
                             Put(@, sym, [shares |-> left, avg_cost |-> avg])]
       IN /\ user.portfolio[sym].avg_cost
                = Frac(avg[1] * left + SumCost(buys) * avg[2], avg[2] * (left + SumShares(buys)))
          /\ user.portfolio[sym].shares = left + SumShares(buys)
          /\ \A perm \in Permutations(1..Len(buys)) :
                BuyAll(start, buys, perm, 1).portfolio[sym].avg_cost
                   = user.portfolio[sym].avg_cost

\* A holding has been bought, partly sold and then bought into twice, at two
\* prices and with two share counts.
C14_Witness ==
    \E sym \in DOMAIN user.portfolio :
       LET ts == TradesOf(sym)
           k == LastSale(ts)
       IN /\ k > 0
          /\ Len(ts) >= k + 2
          /\ ts[k + 1].price # ts[k + 2].price
          /\ ts[k + 1].shares # ts[k + 2].shares

\* Sum of two fractions, in lowest terms.
AddFrac(a, b) == Frac(a[1] * b[2] + b[1] * a[2], a[2] * b[2])

\* The value of the holdings on syms as C15 has it: shares * quote price, and
\* shares * average cost for a holding with no quote at all.
RECURSIVE ValueWithFallback(_, _)
ValueWithFallback(acc, syms) ==
    IF syms = {} THEN <<0, 1>>
    ELSE LET sym == CHOOSE s \in syms : TRUE
             h == acc.portfolio[sym]
         IN AddFrac(IF HasQuote(sym) THEN <<h.shares * Quote(sym), 1>>
                    ELSE Frac(h.shares * h.avg_cost[1], h.avg_cost[2]),
                    ValueWithFallback(acc, syms \ {sym}))

\* C15: the net worth of every account is its balance plus, for every holding,
\* shares * quote price (pre-fetched, else live), or shares * average cost
\* when the symbol has no quote at all.
C15_NetWorthFallsBackToAvgCost ==
    \A acc \in Accounts :
       <<calculate_net_worth(acc), 1>>
          = AddFrac(<<acc.balance, 1>>, ValueWithFallback(acc, DOMAIN acc.portfolio))

\* What a stop-loss pass without a trigger may do to the order o on sym: remove
\* it when its holding is gone, move a trailing order up to a new high, or
\* leave it alone.
OrphanedOrRatcheted(sym, o) ==
    IF sym \notin DOMAIN user.portfolio
    THEN sym \notin DOMAIN user'.stop_losses
    ELSE /\ sym \in DOMAIN user'.stop_losses
         /\ LET o2 == user'.stop_losses[sym]
            IN \/ o2 = o
               \/ /\ o.trailing
                  /\ o2.highest_price > o.highest_price
                  /\ o2 = [o EXCEPT !.highest_price = o2.highest_price, !.price = o2.price]

\* C16: a tick (stop-loss pass, then limit pass, on the same quotes) in which
\* no stop order triggers and no limit order fills changes nothing but
\* trailing stops moved up and orphans removed (stop orders without a holding,
\* limit orders without an owner), and a second tick on the same quotes
\* changes nothing at all.  Stated for accounts with non-negative balances.
C16_QuietTickIsIdempotent ==
    [][/\ (StopPass /\ executed_stop_losses' = <<>>)
          => /\ user'.balance = user.balance
             /\ user'.portfolio = user.portfolio
             /\ DOMAIN user'.stop_losses \subseteq DOMAIN user.stop_losses
             /\ \A sym \in DOMAIN user.stop_losses :
                   OrphanedOrRatcheted(sym, user.stop_losses[sym])
       /\ (/\ LimitPass
           /\ executed_stop_losses = <<>>
           /\ executed_limit_orders' = <<>>
           /\ \A n \in DOMAIN users : users[n].balance >= 0)
          => /\ users' = users
             /\ user' = user
             /\ pending_orders' = SelectSeq(pending_orders, LAMBDA o : o.user \in DOMAIN users)
             /\ check_stop_losses(user') = [user |-> user', executed |-> <<>>]
             /\ process_limit_orders(pending_orders', users')
                   = [pending |-> pending_orders', users |-> users', executed |-> <<>>]
      ]_vars

\* C17: an order whose symbol has no quote, pre-fetched or live, is skipped by
\* its pass.  A stop order (its holding there) and its holding are left as they
\* were and no record is emitted for it; a limit order (its owner there) stays
\* pending as it was and no record is emitted for it; an account all of whose
\* orders are skipped keeps its balance and holdings.  The order is thus there
\* for the next pass.
C17_NoQuoteSkipsOrder ==
    [][/\ StopPass
          => /\ \A sym \in DOMAIN user.stop_losses :
                   (sym \in DOMAIN user.portfolio /\ ~HasQuote(sym))
                   => /\ sym \in DOMAIN user'.stop_losses
                      /\ user'.stop_losses[sym] = user.stop_losses[sym]
                      /\ sym \in DOMAIN user'.portfolio
                      /\ user'.portfolio[sym] = user.portfolio[sym]
                      /\ RecordsOf(executed_stop_losses', sym) = {}
             /\ (\A sym \in DOMAIN user.stop_losses : ~HasQuote(sym))
                   => user'.balance = user.balance /\ user'.portfolio = user.portfolio
       /\ LimitPass
          => \A i \in 1..Len(pending_orders) :
                LET o == pending_orders[i]
                IN (o.user \in DOMAIN users /\ ~HasQuote(o.symbol))
                   => /\ StillPending(o)
                      /\ \A k \in LimitRecordsOf(executed_limit_orders', o.user) :
                            executed_limit_orders'[k].symbol # o.symbol
                      /\ (\A j \in 1..Len(pending_orders) :
                             pending_orders[j].user = o.user => ~HasQuote(pending_orders[j].symbol))
                         => users'[o.user] = users[o.user]
      ]_vars

\* A stop-loss pass has just skipped a stop order whose holding is there and
\* whose symbol has no quote, and the limit pass is about to meet a pending
\* order on the same symbol.
C17_Witness ==
    /\ pc = "limits"
    /\ \E sym \in (DOMAIN user.stop_losses) \cap (DOMAIN user.portfolio) :
          /\ ~HasQuote(sym)
          /\ \E i \in 1..Len(pending_orders) :
                pending_orders[i].symbol = sym /\ pending_orders[i].user \in DOMAIN users

\* Balances, holdings, stop orders and pending limit orders are as they were.
SameAccountsAndOrders == user' = user /\ users' = users /\ pending_orders' = pending_orders

\* C18: a buy command with shares <= 0 or whose cost at the quote price exceeds
\* the balance, a sell command with shares <= 0, of a symbol not held or of
\* more shares than held, and a sellpct command of a symbol not held leave
\* balances, holdings, stop orders and pending limit orders as they were: a
\* step that changes any of them is not such a command.
C18_RejectedTradeChangesNothing ==
    [][(pc = "cmd" /\ ~SameAccountsAndOrders) =>
       /\ \A sym \in Symbols, shares \in ShareInputs, confirm \in BOOLEAN :
             /\ (\/ shares <= 0
                 \/ HasQuote(sym) /\ shares * Quote(sym) > user.balance)
                => ~Buy(sym, shares, confirm)
             /\ (\/ shares <= 0
                 \/ shares > Held(user, sym))
                => ~Sell(sym, shares, confirm)
       /\ \A sym \in Symbols, pct \in SellPctInputs, confirm \in BOOLEAN :
             Held(user, sym) = 0 => ~SellPct(sym, pct, confirm)
      ]_vars

\* The command just read ended without a save, in an account with a quote in
\* which every buy is rejected for lack of funds and every sell for lack of a
\* holding.
C18_Witness ==
    /\ pc = "stops"
    /\ pending_orders # disk_orders
    /\ user.portfolio = Empty
    /\ user.balance >= 0
    /\ \E sym \in DOMAIN stocks :
          \A shares \in ShareInputs : shares > 0 => shares * stocks[sym] > user.balance

\* The step adds one order at the end of the book and leaves the orders that
\* were pending as they were, and no two pending orders share an id.
AddsOneOrder ==
    /\ Len(pending_orders') = Len(pending_orders) + 1
    /\ SubSeq(pending_orders', 1, Len(pending_orders)) = pending_orders
    /\ \A i, j \in 1..Len(pending_orders') :
          pending_orders'[i].id = pending_orders'[j].id => i = j

\* C19: a limitbuy or limitsell command that places its order (valid shares
\* and price, the balance covering shares * target price, the holding covering
\* the shares) adds exactly one order to the pending orders, under an id no
\* other pending order has, and leaves the other pending orders as they were.
C19_PlacementAddsOneOrder ==
    [][pc = "cmd" =>
        \A sym \in Symbols, shares \in ShareInputs, p \in PriceInputs, t \in 0..MaxTime :
           /\ (/\ shares > 0 /\ p > 0
               /\ user.balance >= p * shares
               /\ LimitBuy(sym, shares, p, t))
              => AddsOneOrder
           /\ (/\ shares > 0 /\ p > 0
               /\ Held(user, sym) >= shares
               /\ LimitSell(sym, shares, p, t))
              => AddsOneOrder
      ]_vars

\* The account acc as the fill of the order o at its quote price leaves it.
AfterFill(acc, o) ==
    LET sign == IF o.type = "buy" THEN 1 ELSE -1
    IN [balance |-> acc.balance - sign * o.shares * Quote(o.symbol),
        shares |-> Held(acc, o.symbol) + sign * o.shares]

\* C20: in a limit pass, when an account has two pending orders, both with a
\* quote that meets their price condition, the account having the cash (two
\* buys) or the shares (two sells of one symbol) for either but not for both,
\* the one created first fills and the other does not.
C20_EarlierOrderFillsFirst ==
    [][LimitPass =>
        \A i, j \in 1..Len(pending_orders) :
           LET a == pending_orders[i]
               b == pending_orders[j]
               acc == users[a.user]
           IN (/\ a.created_time < b.created_time
               /\ a.user = b.user /\ a.user \in DOMAIN users
               /\ \A k \in 1..Len(pending_orders) :
                     pending_orders[k].user = a.user => k \in {i, j}
               /\ a.type = b.type
               /\ a.type = "sell" => a.symbol = b.symbol
               /\ HasQuote(a.symbol) /\ HasQuote(b.symbol)
               /\ IF a.type = "buy"
                  THEN /\ Quote(a.symbol) <= a.price /\ Quote(b.symbol) <= b.price
                       /\ acc.balance >= a.shares * Quote(a.symbol)
                       /\ acc.balance >= b.shares * Quote(b.symbol)
                       /\ acc.balance < a.shares * Quote(a.symbol) + b.shares * Quote(b.symbol)
                  ELSE /\ Quote(a.symbol) >= a.price /\ Quote(b.symbol) >= b.price
                       /\ Held(acc, a.symbol) >= a.shares
                       /\ Held(acc, a.symbol) >= b.shares
                       /\ Held(acc, a.symbol) < a.shares + b.shares)
              => /\ Cardinality(LimitRecordsOf(executed_limit_orders', a.user)) = 1
                 /\ \A k \in LimitRecordsOf(executed_limit_orders', a.user) :
                       Matches(a, executed_limit_orders'[k])
                 /\ users'[a.user].balance = AfterFill(acc, a).balance
                 /\ Held(users'[a.user], a.symbol) = AfterFill(acc, a).shares
      ]_vars

\* C21: a stop order never outlives its holding.  set_stop_loss refuses a
\* symbol that is not held, so a stop order that is there right after a step
\* that creates a holding was set against an earlier holding of the symbol:
\* no step of a session that creates a holding leaves a stop order on it.
C21_NoStopOrderOnNewHolding ==
    [][(pc # "login" /\ pc' # "login") =>
        \A sym \in Symbols :
           (sym \notin DOMAIN user.portfolio /\ sym \in DOMAIN user'.portfolio)
           => sym \notin DOMAIN user'.stop_losses
      ]_vars

\* C22: the trailing-stop scenario, step by step.  From cash 10000 and no
\* holding, buy 10 at quote 100 leaves cash 9000 and a holding of 10 at
\* average cost 100; trailstop 10 5 on it sets a 5% trailing order on 10
\* shares; a stop-loss pass at quote 120 over that order moves its stop price
\* to 114 and sells nothing; a stop-loss pass at quote 113 over the order at
\* 114 triggers it: one record of 10 shares at 113, cash 10130, the holding
\* and the stop order gone.
C22_TrailingStopScenario ==
    [][\A sym \in Symbols :
        /\ (/\ pc = "cmd" /\ user.balance = 10000 /\ sym \notin DOMAIN user.portfolio
            /\ HasQuote(sym) /\ Quote(sym) = 100
            /\ Buy(sym, 10, TRUE))
           => /\ user'.balance = 9000
              /\ user'.portfolio = (sym :> [shares |-> 10, avg_cost |-> <<100, 1>>])
        /\ (/\ pc = "cmd" /\ Held(user, sym) = 10 /\ fetch_single_price_ok(sym)
            /\ TrailStop(sym, 10, 5))
           => /\ sym \in DOMAIN user'.stop_losses
              /\ user'.stop_losses[sym].trailing
              /\ user'.stop_losses[sym].trailing_percent = 5
              /\ user'.stop_losses[sym].shares = 10
              /\ user'.balance = user.balance /\ user'.portfolio = user.portfolio
        /\ (/\ StopPass /\ sym \in DOMAIN user.stop_losses
            /\ user.stop_losses[sym].trailing
            /\ user.stop_losses[sym].trailing_percent = 5
            /\ user.stop_losses[sym].shares = 10
            /\ user.balance = 9000 /\ Held(user, sym) = 10
            /\ HasQuote(sym))
           => LET o == user.stop_losses[sym]
              IN /\ (Quote(sym) = 120 /\ o.highest_price <= 120)
                    => /\ sym \in DOMAIN user'.stop_losses
                       /\ user'.stop_losses[sym].price = 114 * 100
                       /\ user'.stop_losses[sym].highest_price = 120
                       /\ executed_stop_losses' = <<>>
                       /\ user'.balance = 9000 /\ user'.portfolio = user.portfolio
                 /\ (Quote(sym) = 113 /\ o.price = 114 * 100)
                    => /\ Len(executed_stop_losses') = 1
                       /\ executed_stop_losses'[1].symbol = sym
                       /\ executed_stop_losses'[1].shares = 10
                       /\ executed_stop_losses'[1].price = 113
                       /\ user'.balance = 10130
                       /\ sym \notin DOMAIN user'.portfolio
                       /\ sym \notin DOMAIN user'.stop_losses
      ]_vars

\* The end of the scenario: the pass at quote 113 has just sold the 10 shares
\* under the trailing order and the account is at 10130.  The order was set at
\* quote 100 (as last saved) and ratcheted to 114 by a pass since.
C22_Witness ==
    /\ pc = "limits"
    /\ username \in DOMAIN disk_users
    /\ \E sym \in DOMAIN disk_users[username].stop_losses :
          /\ disk_users[username].stop_losses[sym].highest_price = 100
          /\ disk_users[username].portfolio[sym] = [shares |-> 10, avg_cost |-> <<100, 1>>]
    /\ user.balance = 10130
    /\ user.portfolio = Empty /\ user.stop_losses = Empty
    /\ Len(executed_stop_losses) = 1
    /\ executed_stop_losses[1].trailing
    /\ executed_stop_losses[1].shares = 10
    /\ executed_stop_losses[1].price = 113
    /\ executed_stop_losses[1].stop_price = 114 * 100

\* C23: every iteration of the command loop ends with the accounts (their
\* stop orders with them) and the pending orders on disk as they are in
\* memory, the changes of the iteration's evaluation tick included, and quit
\* leaves on disk what was in memory when it was typed.
C23_EveryIterationIsPersisted ==
    [][/\ (pc = "cmd" /\ pc' = "stops")
          => (disk_users' = users' /\ disk_orders' = pending_orders')
       /\ (pc = "cmd" /\ pc' = "login")
          => (disk_users' = users /\ disk_orders' = pending_orders)
      ]_vars

\* Every account other than n0 is there after the step and as it was.
OthersUnchanged(n0) ==
    \A n \in DOMAIN users \ {n0} : n \in DOMAIN users' /\ users'[n] = users[n]

\* The step is a trading command of the session: buy, sell, sellpct, limitbuy,
\* limitsell, stoploss, trailstop or cancel.
TradingCommand ==
    \/ \E sym \in Symbols, shares \in ShareInputs, confirm \in BOOLEAN :
          Buy(sym, shares, confirm) \/ Sell(sym, shares, confirm)
    \/ \E sym \in Symbols, pct \in SellPctInputs, confirm \in BOOLEAN : SellPct(sym, pct, confirm)
    \/ \E sym \in Symbols, shares \in ShareInputs, p \in PriceInputs, t \in 0..MaxTime :
          LimitBuy(sym, shares, p, t) \/ LimitSell(sym, shares, p, t)
    \/ \E sym \in Symbols, shares \in ShareInputs, p \in PriceInputs : StopLoss(sym, shares, p)
    \/ \E sym \in Symbols, shares \in ShareInputs, pct \in TrailInputs : TrailStop(sym, shares, pct)
    \/ \E order_type \in {"stoploss", "limit"}, symbol \in Symbols \cup {NoSymbol} :
          Cancel(order_type, symbol)

\* C24: accounts are independent.  A stop-loss pass leaves every account but
\* the session's as it was; a limit pass leaves every account with no fill in
\* the pass as it was; a step that changes an account other than the
\* session's is not a trading command.
C24_AccountsAreIndependent ==
    [][/\ StopPass => OthersUnchanged(username)
       /\ LimitPass =>
             /\ \A n \in DOMAIN users :
                   LimitRecordsOf(executed_limit_orders', n) = {}
                   => n \in DOMAIN users' /\ users'[n] = users[n]
             /\ LimitRecordsOf(executed_limit_orders', username) = {} => user' = user
       /\ (pc = "cmd" /\ ~OthersUnchanged(username)) => ~TradingCommand
      ]_vars

\* A limit pass has just filled an order of an account other than the
\* session's, both accounts being there.
C24_Witness ==
    /\ pc = "cmd"
    /\ username \in DOMAIN users
    /\ \E i \in 1..Len(executed_limit_orders) :
          /\ executed_limit_orders[i].user # username
          /\ executed_limit_orders[i].user \in DOMAIN users

\* C25: in a limit pass, a pending order whose owner is not in users is
\* removed and no record names its owner; a pass over orders that are all of
\* missing owners emits no record and leaves every account as it was; and an
\* order whose owner is in users is still pending after the pass unless its
\* symbol has a quote that meets its price condition.
C25_OwnerlessOrderIsDropped ==
    [][LimitPass =>
        /\ \A i \in 1..Len(pending_orders) :
              LET o == pending_orders[i]
              IN IF o.user \notin DOMAIN users
                 THEN /\ ~StillPending(o)
                      /\ LimitRecordsOf(executed_limit_orders', o.user) = {}
                 ELSE (~HasQuote(o.symbol)
                       \/ ~ShouldExecute(o.type, Quote(o.symbol), o.price))
                      => StillPending(o)
        /\ (\A i \in 1..Len(pending_orders) : pending_orders[i].user \notin DOMAIN users)
           => /\ executed_limit_orders' = <<>>
              /\ users' = users /\ user' = user
      ]_vars

\* A limit pass has just dropped the order of a deleted account: the order is
\* still in pending_orders.json, its owner is not in users.json, and the book
\* in memory is empty.
C25_Witness ==
    /\ pc = "cmd"
    /\ pending_orders = <<>>
    /\ executed_limit_orders = <<>>
    /\ \E i \in 1..Len(disk_orders) :
          /\ disk_orders[i].user \notin DOMAIN disk_users
          /\ disk_orders[i].user \notin DOMAIN users

\* C26: in a stop-loss pass, a stop order on a symbol with no holding is
\* deleted, with or without a quote for the symbol: no record is emitted for
\* it and the symbol still has no holding; a pass over orders that all lack a
\* holding leaves balance and holdings as they were and emits nothing.
C26_OrphanStopOrderIsDeleted ==
    [][StopPass =>
        /\ \A sym \in DOMAIN user.stop_losses :
              sym \notin DOMAIN user.portfolio
              => /\ sym \notin DOMAIN user'.stop_losses
                 /\ RecordsOf(executed_stop_losses', sym) = {}
                 /\ sym \notin DOMAIN user'.portfolio
        /\ (DOMAIN user.stop_losses) \cap (DOMAIN user.portfolio) = {}
           => /\ user'.balance = user.balance
              /\ user'.portfolio = user.portfolio
              /\ executed_stop_losses' = <<>>
      ]_vars

\* A stop-loss pass has just deleted a stop order that the last save left
\* without a holding, the symbol having no quote.
C26_Witness ==
    /\ pc = "limits"
    /\ aliased
    /\ username \in DOMAIN disk_users
    /\ user.balance = disk_users[username].balance
    /\ user.portfolio = disk_users[username].portfolio
    /\ \E sym \in DOMAIN disk_users[username].stop_losses :
          /\ sym \notin DOMAIN disk_users[username].portfolio
          /\ sym \notin DOMAIN user.stop_losses
          /\ ~HasQuote(sym)

\* The step of a command sets the stop order on sym: the order is there after
\* the step and was not, or was another one.
SetsStopOrder(sym) ==
    /\ sym \in DOMAIN user'.stop_losses
    /\ sym \in DOMAIN user.stop_losses => user'.stop_losses[sym] # user.stop_losses[sym]

\* C27: a command sets a stop order on a symbol only when the symbol is held,
\* the order's shares do not exceed the held shares and, for a trailing order,
\* the live quote is available; the order it sets is the one stop order on the
\* symbol, with shares <= held shares, and cash and holdings are as they were.
\* A stoploss or trailstop command on a symbol not held, for more shares than
\* held or (trailstop) without a live quote leaves the account as it was.
C27_StopOrderNeedsCoveringHolding ==
    [][pc = "cmd" =>
        \A sym \in Symbols :
           /\ SetsStopOrder(sym)
              => /\ sym \in DOMAIN user.portfolio
                 /\ user'.stop_losses[sym].shares <= Held(user, sym)
                 /\ user'.stop_losses[sym].shares <= Held(user', sym)
                 /\ user'.stop_losses[sym].trailing => fetch_single_price_ok(sym)
                 /\ user'.balance = user.balance
                 /\ user'.portfolio = user.portfolio
           /\ user' # user
              => \A shares \in ShareInputs :
                    /\ shares > Held(user, sym)
                       => /\ \A p \in PriceInputs : ~StopLoss(sym, shares, p)
                          /\ \A pct \in TrailInputs : ~TrailStop(sym, shares, pct)
                    /\ ~fetch_single_price_ok(sym)
                       => \A pct \in TrailInputs : ~TrailStop(sym, shares, pct)
      ]_vars

\* A stoploss command has just been saved with an order for fewer shares than
\* held.
C27_Witness ==
    /\ pc = "stops"
    /\ username \in DOMAIN disk_users
    /\ disk_users[username] = user
    /\ \E sym \in DOMAIN user.stop_losses :
          /\ ~user.stop_losses[sym].trailing
          /\ 0 < user.stop_losses[sym].shares
          /\ user.stop_losses[sym].shares < Held(user, sym)

\* The stop orders of an account are trailing-consistent: every trailing one
\* has stop price = highest_price * (1 - trailing_percent / 100), in hundredths.
TrailingConsistent(acc) ==
    \A sym \in DOMAIN acc.stop_losses :
       LET o == acc.stop_losses[sym]
       IN o.trailing => o.price = o.highest_price * (100 - o.trailing_percent)

\* C28: every trailing stop order, in memory and on disk, has stop price =
\* highest_price * (1 - trailing_percent / 100).
C28_TrailingStopTracksHighest ==
    /\ \A acc \in Accounts : TrailingConsistent(acc)
    /\ \A n \in DOMAIN disk_users : TrailingConsistent(disk_users[n])

\* A trailing stop order on a holding has been moved up by a pass since it was
\* last saved: both its highest_price and its stop price are above the saved
\* ones.
C28_Witness ==
    /\ aliased
    /\ username \in DOMAIN disk_users
    /\ \E sym \in (DOMAIN user.stop_losses) \cap (DOMAIN disk_users[username].stop_losses) :
          LET o == user.stop_losses[sym]
              saved == disk_users[username].stop_losses[sym]
          IN /\ o.trailing /\ saved.trailing
             /\ sym \in DOMAIN user.portfolio
             /\ o.highest_price > saved.highest_price
             /\ o.price > saved.price

\* The step leaves cash + quote price * shares held, summed over the symbols
\* with a quote, as it was in the account.
ValueConserved(before, after) == calculate_net_worth(after) = calculate_net_worth(before)

\* C29: no trade creates or destroys value.  A stop-loss pass, a limit pass and
\* a command that changes a holding (buy, sell, sellpct) leave cash + quote
\* price * shares held as it was in every account they work on.
C29_TradesConserveValue ==
    [][/\ StopPass => ValueConserved(user, user')
       /\ LimitPass =>
             \A n \in (DOMAIN users) \cap (DOMAIN users') : ValueConserved(users[n], users'[n])
       /\ (pc = "cmd" /\ pc' = "stops" /\ user'.portfolio # user.portfolio)
          => ValueConserved(user, user')
      ]_vars

\* The pending orders that were not targeted are the book after the step, in
\* their order, and every account is as it was.
OnlyRemoves(Targeted(_)) ==
    /\ pending_orders' = SelectSeq(pending_orders, LAMBDA o : ~Targeted(o))
    /\ user' = user
    /\ users' = users

\* C30: cancel removes the targeted orders only.  'cancel limit <symbol>'
\* removes the session user's pending orders on the symbol and 'cancel limit'
\* the session user's pending orders: the other pending orders stay, in their
\* order, and no account changes.  'cancel stoploss <symbol>' removes the stop
\* order on the symbol: the stop orders on other symbols, cash, holdings, the
\* other accounts and the pending orders are as they were.  When nothing is
\* targeted nothing changes.
C30_CancelRemovesTargetedOnly ==
    [][pc = "cmd" =>
        /\ \A symbol \in BookSymbols :
              /\ Cancel("limit", symbol)
                 => OnlyRemoves(LAMBDA o : o.user = username /\ o.symbol = symbol)
              /\ Cancel("stoploss", symbol)
                 => /\ symbol \notin DOMAIN user'.stop_losses
                    /\ \A sym \in DOMAIN user.stop_losses \ {symbol} :
                          /\ sym \in DOMAIN user'.stop_losses
                          /\ user'.stop_losses[sym] = user.stop_losses[sym]
                    /\ DOMAIN user'.stop_losses \subseteq DOMAIN user.stop_losses
                    /\ user'.balance = user.balance
                    /\ user'.portfolio = user.portfolio
                    /\ OthersUnchanged(username)
                    /\ pending_orders' = pending_orders
                    /\ symbol \notin DOMAIN user.stop_losses => (user' = user /\ users' = users)
        /\ Cancel("limit", NoSymbol) => OnlyRemoves(LAMBDA o : o.user = username)
      ]_vars

\* bob's session has cancelled bob's limit orders on one symbol: of the three
\* orders on file two are left, admin's on that symbol and bob's on the other.
C30_Witness ==
    /\ pc = "stops"
    /\ username = "bob"
    /\ Len(pending_orders) = 2
    /\ {pending_orders[i].created_time : i \in 1..2} # {1, 2}
    /\ \E i, j \in 1..2 :
          /\ pending_orders[i].user = "admin"
          /\ pending_orders[j].user = "bob"
          /\ pending_orders[i].symbol # pending_orders[j].symbol

====
